---- MODULE Spec2Model ----
(***************************************************************************)
(* Model of the NinjaTrader trade-history compiler (src/app.py).           *)
(*                                                                         *)
(* Text is a sequence of one-character strings, so that strip(), lower(),  *)
(* splitext(), basename() and the label sanitizer are computed character   *)
(* by character, as the Python code computes them.  A table (DataFrame) is *)
(* a record [cols, rows]: cols the column names in left-to-right order,    *)
(* rows the rows in index order, each row a sequence of cell values        *)
(* aligned with cols.  A missing value (NaN / empty cell) is the empty     *)
(* text <<>>.                                                              *)
(***************************************************************************)
EXTENDS Integers, Sequences, FiniteSets, TLC

VARIABLES
    disk,        \* the files under UPLOAD_DIR: path -> raw file
    output,      \* the files under OUTPUT_DIR: file name -> csv lines
    jobs,        \* job id -> the frame of that job's compile_files call
    queues,      \* progress_queues: job id -> events put, oldest first
    reads,       \* job id -> the paths read_file was called with, in order
    writes,      \* job id -> the paths to_csv was called with, in order
    call,        \* the helper call under study (pure-function specifications)
    sessions,    \* the session store: session id -> [files, account]
    threads,     \* job id -> the worker thread compile_route started
    taken,       \* job id -> how many events q.get() has removed so far
    streams,     \* the progress streams opened: what each has yielded
    pending,     \* session id -> the remove/clear handler in flight, if any
    resp         \* the answer to the request handled last

vars == <<disk, output, jobs, queues, reads, writes, call,
          sessions, threads, taken, streams, pending, resp>>

\* The state of the web layer.
web == <<sessions, threads, taken, streams, pending, resp>>

NoResp == [op |-> "none", target |-> 0, status |-> 0, body |-> "none"]

\* No request has been handled: both stores are empty (lines 24 and 26).
NoWeb ==
    /\ sessions = <<>>
    /\ threads = <<>>
    /\ taken = <<>>
    /\ streams = <<>>
    /\ pending = <<>>
    /\ resp = NoResp

-----------------------------------------------------------------------------
(* Text primitives                                                         *)

UpperChars == <<"A","B","C","D","E","F","G","H","I","J","K","L","M",
                "N","O","P","Q","R","S","T","U","V","W","X","Y","Z">>
LowerChars == <<"a","b","c","d","e","f","g","h","i","j","k","l","m",
                "n","o","p","q","r","s","t","u","v","w","x","y","z">>
DigitChars == <<"0","1","2","3","4","5","6","7","8","9">>

Range(s) == {s[i] : i \in 1..Len(s)}

\* The 1-based position of c in seq, 0 when absent.
IndexIn(c, seq) ==
    IF \E i \in 1..Len(seq) : seq[i] = c
    THEN CHOOSE i \in 1..Len(seq) : seq[i] = c
    ELSE 0

\* str.lower(), one character.
lower_char(c) ==
    IF IndexIn(c, UpperChars) > 0 THEN LowerChars[IndexIn(c, UpperChars)] ELSE c

\* str.lower()
lower(s) == [i \in 1..Len(s) |-> lower_char(s[i])]

Whitespace == {" ", "\t", "\n", "\r"}

\* str.strip(): surrounding whitespace removed.
strip(s) ==
    LET keep == {i \in 1..Len(s) : s[i] \notin Whitespace}
    IN  IF keep = {} THEN <<>>
        ELSE LET lo == CHOOSE i \in keep : \A j \in keep : i <= j
                 hi == CHOOSE i \in keep : \A j \in keep : j <= i
             IN  SubSeq(s, lo, hi)

\* str.isalnum(), one character.
isalnum(c) ==
    \/ c \in Range(UpperChars)
    \/ c \in Range(LowerChars)
    \/ c \in Range(DigitChars)

\* k in s (substring test).
Contains(s, k) ==
    \E i \in 0..(Len(s) - Len(k)) : SubSeq(s, i + 1, i + Len(k)) = k

\* The last position of character c in s, 0 when absent (str.rfind + 1).
rfind(s, c) ==
    LET hits == {i \in 1..Len(s) : s[i] = c}
    IN  IF hits = {} THEN 0 ELSE CHOOSE i \in hits : \A j \in hits : j <= i

\* os.path.basename
basename(p) == SubSeq(p, rfind(p, "/") + 1, Len(p))

\* os.path.splitext(p)[1]: from the last dot of the last component on,
\* unless that component has nothing but dots before it.
splitext_ext(p) ==
    LET sep == rfind(p, "/")
        dot == rfind(p, ".")
    IN  IF dot > sep /\ \E i \in (sep + 1)..(dot - 1) : p[i] # "."
        THEN SubSeq(p, dot, Len(p))
        ELSE <<>>

\* os.path.join(a, b): an absolute b discards a.
path_join(a, b) ==
    IF Len(b) > 0 /\ b[1] = "/" THEN b
    ELSE IF Len(a) > 0 /\ a[Len(a)] = "/" THEN a \o b
    ELSE a \o <<"/">> \o b

BASE_DIR   == <<"/","a","p","p">>
UPLOAD_DIR == path_join(BASE_DIR, <<"u","p","l","o","a","d","s">>)
OUTPUT_DIR == path_join(BASE_DIR, <<"o","u","t","p","u","t">>)

EXT_CSV  == <<".","c","s","v">>
EXT_XLSX == <<".","x","l","s","x">>
EXT_XLS  == <<".","x","l","s">>

-----------------------------------------------------------------------------
(* Raw files and the pandas readers                                        *)
(*                                                                         *)
(* A raw file is [format, lines]: format is what the bytes are ("csv"      *)
(* text, an "xlsx" or "xls" workbook, or "junk"), lines the non-blank      *)
(* lines (csv) or sheet rows (workbook), each a sequence of cell texts.    *)
(* NoFile stands for a path with no file behind it.                        *)

NoFile == [format |-> "none", lines |-> <<>>]
Csv(lines)  == [format |-> "csv", lines |-> lines]
Xlsx(lines) == [format |-> "xlsx", lines |-> lines]
Junk        == [format |-> "junk", lines |-> <<>>]

NA == <<>>
isna(v) == v = NA

\* A reader's outcome: the rows read, or a raised exception.
Raised == [ok |-> FALSE, header |-> <<>>, rows |-> <<>>]

\* A row brought to width w with trailing missing cells.
PadTo(row, w) == row \o [i \in 1..(w - Len(row)) |-> NA]

Max(a, b) == IF a >= b THEN a ELSE b
Min(a, b) == IF a <= b THEN a ELSE b

\* The largest row width of a sheet.
SheetWidth(lines) ==
    IF lines = <<>> THEN 0
    ELSE LET ws == {Len(lines[i]) : i \in 1..Len(lines)}
         IN  CHOOSE w \in ws : \A v \in ws : v <= w

\* on_bad_lines="skip": a line with more fields than `width` is dropped, a
\* shorter one gets trailing missing cells.
RECURSIVE SkipBadLines(_, _)
SkipBadLines(lines, width) ==
    IF lines = <<>> THEN <<>>
    ELSE IF Len(Head(lines)) > width
         THEN SkipBadLines(Tail(lines), width)
         ELSE <<PadTo(Head(lines), width)>> \o SkipBadLines(Tail(lines), width)

\* The number of rows detect_header_row looks at (nrows=30).
HEADER_SCAN_ROWS == 30

\* pd.read_csv(filepath, header=None, nrows=n, encoding="utf-8",
\*             on_bad_lines="skip"): the first line sets the field count.
read_csv_noheader(file, n) ==
    IF file.format # "csv" \/ file.lines = <<>> THEN Raised
    ELSE LET good == SkipBadLines(file.lines, Len(file.lines[1]))
         IN  [ok |-> TRUE, header |-> <<>>,
              rows |-> SubSeq(good, 1, Min(n, Len(good)))]

\* The workbook engine of an extension.
excel_format(ext) == IF ext = EXT_XLSX THEN "xlsx" ELSE "xls"

\* pd.read_excel(filepath, header=None, nrows=n, engine=...)
read_excel_noheader(file, ext, n) ==
    IF file.format # excel_format(ext) THEN Raised
    ELSE LET w == SheetWidth(file.lines)
             all == [i \in 1..Len(file.lines) |-> PadTo(file.lines[i], w)]
         IN  [ok |-> TRUE, header |-> <<>>,
              rows |-> SubSeq(all, 1, Min(n, Len(all)))]

HEADER_KEYWORDS == {
    <<"i","n","s","t","r","u","m","e","n","t">>,
    <<"m","a","r","k","e","t"," ","p","o","s","i","t","i","o","n">>,
    <<"q","u","a","n","t","i","t","y">>,
    <<"e","n","t","r","y"," ","p","r","i","c","e">>,
    <<"e","x","i","t"," ","p","r","i","c","e">>,
    <<"p","r","o","f","i","t">>,
    <<"c","o","m","m","i","s","s","i","o","n">>,
    <<"m","a","e">>,
    <<"m","f","e">>,
    <<"e","n","t","r","y"," ","t","i","m","e">>,
    <<"e","x","i","t"," ","t","i","m","e">>,
    <<"t","r","a","d","e">>,
    <<"e","n","t","r","y"," ","n","a","m","e">>,
    <<"e","x","i","t"," ","n","a","m","e">>,
    <<"c","u","m","."," ","n","e","t"," ","p","r","o","f","i","t">>,
    <<"r","u","n","-","u","p">>,
    <<"d","r","a","w","d","o","w","n">>,
    <<"a","c","c","o","u","n","t">>,
    <<"c","o","n","t","r","a","c","t">>,
    <<"e","n","t","r","y">>,
    <<"e","x","i","t">>,
    <<"p","&","l">>,
    <<"p","n","l">> }

\* row_lower & HEADER_KEYWORDS is non-empty.
row_has_keyword(row) ==
    \E k \in 1..Len(row) :
        /\ ~isna(row[k])
        /\ lower(strip(row[k])) \in HEADER_KEYWORDS

\* The raw frame detect_header_row scans.
header_scan(fs, filepath) ==
    LET ext == lower(splitext_ext(filepath))
    IN  IF ext \in {EXT_XLSX, EXT_XLS}
        THEN read_excel_noheader(fs[filepath], ext, HEADER_SCAN_ROWS)
        ELSE read_csv_noheader(fs[filepath], HEADER_SCAN_ROWS)

\* detect_header_row: the 0-based index of the first scanned row holding a
\* keyword, 0 when there is none or the read raised.
detect_header_row(fs, filepath) ==
    LET raw == header_scan(fs, filepath)
    IN  IF ~raw.ok THEN 0
        ELSE LET hits == {i \in 1..Len(raw.rows) : row_has_keyword(raw.rows[i])}
             IN  IF hits = {} THEN 0
                 ELSE (CHOOSE i \in hits : \A j \in hits : i <= j) - 1

-----------------------------------------------------------------------------
(* read_file                                                               *)

\* A DataFrame, and Python's None in its place.
Table(cols, rows) == [isnone |-> FALSE, cols |-> cols, rows |-> rows]
None == [isnone |-> TRUE, cols |-> <<>>, rows |-> <<>>]

\* str(n) of a natural number.
RECURSIVE int_text(_)
int_text(n) ==
    IF n < 10 THEN <<DigitChars[n + 1]>>
    ELSE int_text(n \div 10) \o <<DigitChars[(n % 10) + 1]>>

\* The column names pandas makes of a header row: an empty header cell is
\* "Unnamed: <position>", a repeated name gets ".<count>" appended.
column_names(hdr) ==
    LET named == [k \in 1..Len(hdr) |->
                    IF isna(hdr[k])
                    THEN <<"U","n","n","a","m","e","d",":"," ">> \o int_text(k - 1)
                    ELSE hdr[k]]
        seen(k) == Cardinality({j \in 1..(k - 1) : named[j] = named[k]})
    IN  [k \in 1..Len(hdr) |->
            IF seen(k) = 0 THEN named[k]
            ELSE named[k] \o <<".">> \o int_text(seen(k))]

\* pd.read_csv(filepath, header=h, encoding="utf-8", on_bad_lines="skip"):
\* line h names the columns, lines before it are ignored; the first data
\* line may be wider than the header (its leading fields are then the row
\* index, which the merge drops); later lines wider than the table are
\* skipped, shorter ones padded.
read_csv_header(file, h) ==
    IF file.format # "csv" \/ file.lines = <<>> \/ h + 1 > Len(file.lines)
    THEN Raised
    ELSE LET hdr == file.lines[h + 1]
             data == SubSeq(file.lines, h + 2, Len(file.lines))
             width == IF data = <<>> THEN Len(hdr)
                      ELSE Max(Len(hdr), Len(data[1]))
             kept == SkipBadLines(data, width)
             lead == width - Len(hdr)
         IN  [ok |-> TRUE, header |-> column_names(hdr),
              rows |-> [i \in 1..Len(kept) |-> SubSeq(kept[i], lead + 1, width)]]

\* pd.read_excel(filepath, header=h, engine=...)
read_excel_header(file, ext, h) ==
    IF file.format # excel_format(ext) THEN Raised
    ELSE IF file.lines = <<>> THEN [ok |-> TRUE, header |-> <<>>, rows |-> <<>>]
    ELSE IF h + 1 > Len(file.lines) THEN Raised
    ELSE LET w == SheetWidth(file.lines)
             all == [i \in 1..Len(file.lines) |-> PadTo(file.lines[i], w)]
         IN  [ok |-> TRUE, header |-> column_names(all[h + 1]),
              rows |-> SubSeq(all, h + 2, Len(all))]

\* A subsequence by positions: the elements of s at the positions in keep,
\* in order.
RECURSIVE Pick(_, _, _)
Pick(s, keep, i) ==
    IF i > Len(s) THEN <<>>
    ELSE (IF i \in keep THEN <<s[i]>> ELSE <<>>) \o Pick(s, keep, i + 1)

\* df.dropna(how="all"): rows with every cell missing are dropped.
dropna_rows(df) ==
    LET keep == {i \in 1..Len(df.rows) :
                    \E k \in 1..Len(df.cols) : ~isna(df.rows[i][k])}
    IN  Table(df.cols, Pick(df.rows, keep, 1))

\* df.dropna(axis=1, how="all"): columns with every cell missing are dropped.
dropna_cols(df) ==
    LET keep == {k \in 1..Len(df.cols) :
                    \E i \in 1..Len(df.rows) : ~isna(df.rows[i][k])}
    IN  Table(Pick(df.cols, keep, 1),
              [i \in 1..Len(df.rows) |-> Pick(df.rows[i], keep, 1)])

\* df.columns = [str(c).strip() for c in df.columns]
strip_columns(df) ==
    Table([k \in 1..Len(df.cols) |-> strip(df.cols[k])], df.rows)

\* df.empty
empty(df) == Len(df.rows) = 0 \/ Len(df.cols) = 0

\* The cleaning without the column drop of line 73.
clean_keep_columns(df) ==
    LET cleaned == strip_columns(dropna_rows(df))
    IN  IF empty(cleaned) THEN None ELSE cleaned

\* The cleaning of read_file, lines 72-75.
clean(df) ==
    LET cleaned == strip_columns(dropna_cols(dropna_rows(df)))
    IN  IF empty(cleaned) THEN None ELSE cleaned

\* The full parse of read_file, lines 63-70.
parse(fs, filepath, header_row) ==
    LET ext == lower(splitext_ext(filepath))
    IN  IF ext \in {EXT_XLSX, EXT_XLS}
        THEN read_excel_header(fs[filepath], ext, header_row)
        ELSE read_csv_header(fs[filepath], header_row)

\* read_file: the cleaned table of a file, None for an unsupported
\* extension, a failed parse or nothing left after cleaning.
read_file(fs, filepath) ==
    LET ext == lower(splitext_ext(filepath))
        header_row == detect_header_row(fs, filepath)
    IN  IF ext \notin {EXT_XLSX, EXT_XLS, EXT_CSV} THEN None
        ELSE LET raw == parse(fs, filepath, header_row)
             IN  IF ~raw.ok THEN None
                 ELSE clean(Table(raw.header, raw.rows))

-----------------------------------------------------------------------------
(* The merge: concatenation, duplicate removal, temporal sort              *)

\* The distinct elements of a sequence, in order of first appearance.
RECURSIVE FirstSeen(_, _)
FirstSeen(s, i) ==
    IF i > Len(s) THEN <<>>
    ELSE (IF \E j \in 1..(i - 1) : s[j] = s[i] THEN <<>> ELSE <<s[i]>>)
         \o FirstSeen(s, i + 1)

RECURSIVE Flatten(_)
Flatten(ss) == IF ss = <<>> THEN <<>> ELSE Head(ss) \o Flatten(Tail(ss))

unique_names(cols) == \A i, j \in 1..Len(cols) : cols[i] = cols[j] => i = j

\* pd.concat cannot align frames on column names that repeat within a
\* frame, unless all frames carry the very same columns.
concat_raises(frames) ==
    /\ \E f \in 1..Len(frames) : ~unique_names(frames[f].cols)
    /\ \E f \in 1..Len(frames) : frames[f].cols # frames[1].cols

\* A row of frame df laid out on the columns `cols`: the cell of the
\* equally named column, a missing value where df has no such column.
align(df, row, cols) ==
    [k \in 1..Len(cols) |->
        IF IndexIn(cols[k], df.cols) > 0
        THEN row[IndexIn(cols[k], df.cols)]
        ELSE NA]

\* pd.concat(frames, ignore_index=True): the columns are the union of the
\* frames' columns in order of first appearance, the rows follow frame by
\* frame.
concat(frames) ==
    LET cols == IF unique_names(frames[1].cols)
                THEN FirstSeen(Flatten([f \in 1..Len(frames) |-> frames[f].cols]), 1)
                ELSE frames[1].cols
        part(f) == IF unique_names(frames[f].cols)
                   THEN [i \in 1..Len(frames[f].rows) |->
                            align(frames[f], frames[f].rows[i], cols)]
                   ELSE frames[f].rows
    IN  Table(cols, Flatten([f \in 1..Len(frames) |-> part(f)]))

\* drop_duplicates with keep="last": the last of equal rows is kept.
drop_duplicates_keep_last(df) ==
    LET keep == {i \in 1..Len(df.rows) :
                    \A j \in (i + 1)..Len(df.rows) : df.rows[j] # df.rows[i]}
    IN  Table(df.cols, Pick(df.rows, keep, 1))

\* drop_duplicates comparing the first column only (subset=data_cols[:1]).
drop_duplicates_first_column(df) ==
    LET keep == {i \in 1..Len(df.rows) :
                    \A j \in 1..(i - 1) : df.rows[j][1] # df.rows[i][1]}
    IN  Table(df.cols, Pick(df.rows, keep, 1))

\* drop_duplicates dropping one row a pass: the last row that equals an
\* earlier one.
drop_duplicates_one_row(df) ==
    LET dup == {i \in 1..Len(df.rows) : \E j \in 1..(i - 1) : df.rows[j] = df.rows[i]}
        last == CHOOSE i \in dup : \A j \in dup : j <= i
    IN  IF dup = {} THEN df
        ELSE Table(df.cols, Pick(df.rows, (1..Len(df.rows)) \ {last}, 1))

\* combined.drop_duplicates(subset=data_cols) over all columns: a row equal
\* to an earlier row in every column is dropped (keep="first").
drop_duplicates(df) == Table(df.cols, FirstSeen(df.rows, 1))

TEMPORAL_HINTS == { <<"t","i","m","e">>, <<"d","a","t","e">>,
                    <<"e","n","t","r","y">>, <<"e","x","i","t">> }

\* any(k in col.lower() for k in ("time", "date", "entry", "exit"))
is_temporal_name(col) == \E k \in TEMPORAL_HINTS : Contains(lower(col), k)

\* A text pd.to_datetime converts: here, a number (read as nanoseconds
\* since the epoch).
is_time_text(v) == v # <<>> /\ \A i \in 1..Len(v) : v[i] \in Range(DigitChars)

\* A converted Timestamp: the marker "@" before its nanosecond count.
timestamp(v) == <<"@">> \o v

RECURSIVE text_int(_)
text_int(v) ==
    IF v = <<>> THEN 0
    ELSE 10 * text_int(SubSeq(v, 1, Len(v) - 1)) + (IndexIn(v[Len(v)], DigitChars) - 1)

\* The nanosecond count of a Timestamp.
time_of(ts) == text_int(Tail(ts))

\* Whether pd.to_datetime(combined[col]) succeeds on column k: every present
\* value converts (a missing value becomes NaT, which is missing too), and
\* the name selects one column.
to_datetime_ok(df, k) ==
    /\ Cardinality({j \in 1..Len(df.cols) : df.cols[j] = df.cols[k]}) = 1
    /\ \A i \in 1..Len(df.rows) :
          isna(df.rows[i][k]) \/ is_time_text(df.rows[i][k])

\* combined[col] = pd.to_datetime(combined[col]) on column k.
to_datetime(df, k) ==
    Table(df.cols,
          [i \in 1..Len(df.rows) |->
              [c \in 1..Len(df.cols) |->
                  IF c = k /\ ~isna(df.rows[i][c])
                  THEN timestamp(df.rows[i][c])
                  ELSE df.rows[i][c]]])

\* The sort loop scanning the columns from the right.
sort_column_rightmost(df) ==
    LET ok == {k \in 1..Len(df.cols) :
                  is_temporal_name(df.cols[k]) /\ to_datetime_ok(df, k)}
    IN  IF ok = {} THEN 0 ELSE CHOOSE k \in ok : \A j \in ok : j <= k

\* The column the sort loop of lines 111-119 stops at: the leftmost column
\* with a temporal name whose conversion succeeds; 0 when the loop ends
\* without a break.
sort_column(df) ==
    LET ok == {k \in 1..Len(df.cols) :
                  is_temporal_name(df.cols[k]) /\ to_datetime_ok(df, k)}
    IN  IF ok = {} THEN 0 ELSE CHOOSE k \in ok : \A j \in ok : k <= j

RowOrders(n) ==
    {p \in [1..n -> 1..n] : \A i, j \in 1..n : p[i] = p[j] => i = j}

\* combined.sort_values(col) on a converted column k: the row orders it may
\* produce.  Ascending, NaT last in their mutual order (na_position="last");
\* the default sort kind is not stable, so rows with equal timestamps may
\* come out in any mutual order.
sort_orders(df, k) ==
    LET n == Len(df.rows)
        key(i) == df.rows[i][k]
    IN  {p \in RowOrders(n) :
            \A a, b \in 1..n : a < b =>
                \/ /\ ~isna(key(p[a])) /\ ~isna(key(p[b]))
                   /\ time_of(key(p[a])) <= time_of(key(p[b]))
                \/ /\ ~isna(key(p[a])) /\ isna(key(p[b]))
                \/ /\ isna(key(p[a])) /\ isna(key(p[b])) /\ p[a] < p[b]}

\* The table with its rows in the order p (reset_index renumbers them).
reorder(df, p) == Table(df.cols, [i \in 1..Len(df.rows) |-> df.rows[p[i]]])

-----------------------------------------------------------------------------
(* The output file                                                         *)

\* account_name when the request carried no text for it (JSON null):
\* iterating it raises.
NO_LABEL == <<"<None>">>

\* The label with surrounding whitespace removed and nothing replaced.
safe_name_strip_only(account_name) == strip(account_name)

\* Lines 121-123: every character that is not alphanumeric, space,
\* underscore or hyphen becomes an underscore; then strip().
safe_name(account_name) ==
    strip([i \in 1..Len(account_name) |->
              IF isalnum(account_name[i]) \/ account_name[i] \in {" ", "_", "-"}
              THEN account_name[i]
              ELSE "_"])

\* f"{safe_name}_compiled.csv"
out_name(account_name) ==
    safe_name(account_name) \o <<"_","c","o","m","p","i","l","e","d",".","c","s","v">>

\* Line 124.
out_path_of(account_name) == path_join(OUTPUT_DIR, out_name(account_name))

\* The text to_csv writes for a Timestamp: date, time and nine fractional
\* digits.
format_timestamp(ts) ==
    LET ns == Tail(ts)
    IN  <<"1","9","7","0","-","0","1","-","0","1"," ",
          "0","0",":","0","0",":","0","0",".">>
        \o [i \in 1..(9 - Len(ns)) |-> "0"] \o ns

\* The text to_csv writes for a cell: nothing for a missing value.
format_cell(v) ==
    IF v # <<>> /\ v[1] = "@" THEN format_timestamp(v) ELSE v

\* combined.to_csv(out_path, index=False): the header line, then one line
\* per row.
to_csv(df) ==
    Csv(<<df.cols>> \o
        [i \in 1..Len(df.rows) |->
            [k \in 1..Len(df.cols) |-> format_cell(df.rows[i][k])]])

-----------------------------------------------------------------------------
(* compile_files, one step at a time                                       *)

MaxJobs == 2
JobIds == 1..MaxJobs

\* The value compile_files returns.
ReturnValue(path, rows, dupes) ==
    [none |-> FALSE, out_path |-> path, rows |-> rows, dupes |-> dupes]
Failure == [none |-> TRUE, out_path |-> <<>>, rows |-> 0, dupes |-> 0]

\* A job that has not been started.
Idle == [pc |-> "idle", file_paths |-> <<>>, account_name |-> <<>>, idx |-> 0,
         frames |-> <<>>, combined |-> None, dupes_removed |-> 0,
         ret |-> Failure]

push(q, msg) == Append(q, msg)

\* compile_files is entered (lines 83-90): the job's queue exists, no frame
\* is collected yet.
Enter(j, paths, label) ==
    /\ jobs[j].pc = "idle"
    /\ jobs' = [jobs EXCEPT ![j] = [Idle EXCEPT !.pc = "loop",
                                                !.file_paths = paths,
                                                !.account_name = label]]
    /\ UNCHANGED <<disk, output, queues, reads, writes, call>>

\* Lines 92-94: the next file's progress event is put on the queue.
PushProgress(j) ==
    LET job == jobs[j] IN
    /\ job.pc = "loop"
    /\ job.idx < Len(job.file_paths)
    /\ queues' = [queues EXCEPT ![j] =
                    push(@, [type |-> "progress", current |-> job.idx + 1,
                             total |-> Len(job.file_paths),
                             file |-> basename(job.file_paths[job.idx + 1])])]
    /\ jobs' = [jobs EXCEPT ![j].pc = "read"]
    /\ UNCHANGED <<disk, output, reads, writes, call, web>>

\* Lines 95-97: the file is read; its table, if any, is collected.
ReadFile(j) ==
    LET job == jobs[j]
        fp == job.file_paths[job.idx + 1]
        df == read_file(disk, fp)
    IN  /\ job.pc = "read"
        /\ reads' = [reads EXCEPT ![j] = Append(@, fp)]
        /\ jobs' = [jobs EXCEPT ![j].pc = "loop",
                                ![j].idx = @ + 1,
                                ![j].frames = IF df.isnone THEN @ ELSE Append(@, df)]
        /\ UNCHANGED <<disk, output, queues, writes, call, web>>

\* NoFrames with the error event left out: the failure is returned silently.
NoFramesSilent(j) ==
    LET job == jobs[j] IN
    /\ job.pc = "loop"
    /\ job.idx = Len(job.file_paths)
    /\ job.frames = <<>>
    /\ jobs' = [jobs EXCEPT ![j].pc = "returned", ![j].ret = Failure]
    /\ UNCHANGED <<disk, output, queues, reads, writes, call, web>>

\* Lines 99-101: nothing was collected.
NoFrames(j) ==
    LET job == jobs[j] IN
    /\ job.pc = "loop"
    /\ job.idx = Len(job.file_paths)
    /\ job.frames = <<>>
    /\ queues' = [queues EXCEPT ![j] =
                    push(@, [type |-> "error",
                             message |-> "No readable data found in the selected files."])]
    /\ jobs' = [jobs EXCEPT ![j].pc = "returned", ![j].ret = Failure]
    /\ UNCHANGED <<disk, output, reads, writes, call, web>>

\* Lines 103-108: concatenation and duplicate removal.  An exception leaves
\* compile_files without any further event.
Merge(j) ==
    LET job == jobs[j] IN
    /\ job.pc = "loop"
    /\ job.idx = Len(job.file_paths)
    /\ job.frames # <<>>
    /\ IF concat_raises(job.frames)
       THEN jobs' = [jobs EXCEPT ![j].pc = "raised"]
       ELSE LET combined == concat(job.frames)
                before == Len(combined.rows)
                deduped == drop_duplicates(combined)
            IN  jobs' = [jobs EXCEPT ![j].pc = "sort",
                                     ![j].combined = deduped,
                                     ![j].dupes_removed = before - Len(deduped.rows)]
    /\ UNCHANGED <<disk, output, queues, reads, writes, call, web>>

\* Lines 110-119: the table is sorted by the first temporal column that
\* converts; without one it is left as it is.
Sort(j) ==
    LET job == jobs[j]
        k == sort_column(job.combined)
    IN  /\ job.pc = "sort"
        /\ IF k = 0
           THEN jobs' = [jobs EXCEPT ![j].pc = "write"]
           ELSE \E p \in sort_orders(to_datetime(job.combined, k), k) :
                   jobs' = [jobs EXCEPT
                              ![j].pc = "write",
                              ![j].combined = reorder(to_datetime(job.combined, k), p)]
        /\ UNCHANGED <<disk, output, queues, reads, writes, call, web>>

\* WriteOutput with to_csv(mode="a"): the lines go after those of an
\* existing file.
WriteOutputAppend(j) ==
    LET job == jobs[j]
        path == out_path_of(job.account_name)
        old == IF path \in DOMAIN output THEN output[path].lines ELSE <<>>
    IN  /\ job.pc = "write"
        /\ IF job.account_name = NO_LABEL
           THEN /\ jobs' = [jobs EXCEPT ![j].pc = "raised"]
                /\ UNCHANGED <<output, writes>>
           ELSE /\ output' = [p \in DOMAIN output \cup {path} |->
                                IF p = path
                                THEN Csv(old \o to_csv(job.combined).lines)
                                ELSE output[p]]
                /\ writes' = [writes EXCEPT ![j] = Append(@, path)]
                /\ jobs' = [jobs EXCEPT ![j].pc = "emit"]
        /\ UNCHANGED <<disk, queues, reads, call, web>>

\* Lines 121-125: the output file is written over whatever was there.  A
\* label that is not text raises at line 121.
WriteOutput(j) ==
    LET job == jobs[j] IN
    /\ job.pc = "write"
    /\ IF job.account_name = NO_LABEL
       THEN /\ jobs' = [jobs EXCEPT ![j].pc = "raised"]
            /\ UNCHANGED <<output, writes>>
       ELSE /\ output' = [p \in DOMAIN output \cup {out_path_of(job.account_name)} |->
                            IF p = out_path_of(job.account_name)
                            THEN to_csv(job.combined)
                            ELSE output[p]]
            /\ writes' = [writes EXCEPT ![j] = Append(@, out_path_of(job.account_name))]
            /\ jobs' = [jobs EXCEPT ![j].pc = "emit"]
    /\ UNCHANGED <<disk, queues, reads, call, web>>

\* Lines 127-129: the done event, and the return.
PushDone(j) ==
    LET job == jobs[j]
        out_path == out_path_of(job.account_name)
    IN  /\ job.pc = "emit"
        /\ queues' = [queues EXCEPT ![j] =
                        push(@, [type |-> "done", rows |-> Len(job.combined.rows),
                                 dupes |-> job.dupes_removed,
                                 filename |-> basename(out_path)])]
        /\ jobs' = [jobs EXCEPT ![j].pc = "returned",
                                ![j].ret = ReturnValue(out_path, Len(job.combined.rows),
                                                       job.dupes_removed)]
        /\ UNCHANGED <<disk, output, reads, writes, call, web>>

-----------------------------------------------------------------------------
(* The uploaded files and the compile requests of the model                *)

P1 == path_join(UPLOAD_DIR, <<"a",".","c","s","v">>)
P2 == path_join(UPLOAD_DIR, <<"b",".","X","L","S","X">>)
P3 == path_join(UPLOAD_DIR, <<"c",".","t","x","t">>)
Paths == {P1, P2, P3}

T1 == <<"1">>
T2 == <<"2">>
TX == <<"x">>
HdrExitSym == << <<" ","E","x","i","t"," ">>, <<"s","y","m">> >>

\* The file contents a compile request may meet: duplicate rows, distinct
\* rows, only empty rows, a title line above the header, and bytes no
\* reader accepts.
SmallLines == {
    <<HdrExitSym, <<T2, TX>>, <<T2, TX>>>>,
    <<HdrExitSym, <<T2, TX>>, <<T1, TX>>>>,
    <<HdrExitSym, <<NA, NA>>>>,
    << <<TX>>, HdrExitSym, <<T1, TX>> >> }

SmallCsv  == {Csv(l) : l \in SmallLines} \cup {Junk}
SmallXlsx == {Xlsx(l) : l \in SmallLines} \cup {Junk}

TextFile == Csv(<<HdrExitSym, <<T1, TX>>>>)

Disk(f1, f2) == (P1 :> f1) @@ (P2 :> f2) @@ (P3 :> TextFile)

MaxFiles == 2
PathSeqs == UNION {[1..n -> Paths] : n \in 0..MaxFiles}

Labels == { <<"A","/","1">>, <<"B">>, NO_LABEL }

NoCall == [fn |-> "none"]

\* No compile request has been made.
NoJobs ==
    /\ output = [p \in {} |-> NoFile]
    /\ jobs = [j \in JobIds |-> Idle]
    /\ queues = [j \in JobIds |-> <<>>]
    /\ reads = [j \in JobIds |-> <<>>]
    /\ writes = [j \in JobIds |-> <<>>]
    /\ NoWeb

InitJobs == NoJobs /\ call = NoCall

Init ==
    /\ \E f1 \in SmallCsv, f2 \in SmallXlsx : disk = Disk(f1, f2)
    /\ InitJobs

Running(j) == jobs[j].pc \notin {"idle", "returned", "raised"}

\* A compile request: jobs are started in the order of their ids, one after
\* the other has ended.
StartJob(j) ==
    /\ \A i \in JobIds : ~Running(i)
    /\ \A i \in JobIds : i < j => jobs[i].pc # "idle"
    /\ \E paths \in PathSeqs, label \in Labels : Enter(j, paths, label)
    /\ UNCHANGED web

Next ==
    \E j \in JobIds :
        \/ StartJob(j)
        \/ PushProgress(j)
        \/ ReadFile(j)
        \/ NoFrames(j)
        \/ Merge(j)
        \/ Sort(j)
        \/ WriteOutput(j)
        \/ PushDone(j)

Spec == Init /\ [][Next]_vars

-----------------------------------------------------------------------------
(* Properties of compile_files                                             *)

Ended(j) == jobs[j].pc \in {"returned", "raised"}
Succeeded(j) == jobs[j].pc = "returned" /\ ~jobs[j].ret.none

\* Every input file of job j reads as None.
AllNone(j) ==
    \A i \in 1..Len(jobs[j].file_paths) :
        read_file(disk, jobs[j].file_paths[i]).isnone

EventsOfType(q, t) == {i \in 1..Len(q) : q[i].type = t}

Last(q) == q[Len(q)]

\* C1: the events of a job are its N progress events, numbered 1..N with
\* total N and the base name of the i-th file, then exactly one terminal
\* event once compile_files has ended, and nothing after it.
C1_ProgressThenOneTerminal ==
    \A j \in JobIds :
        LET q == queues[j]
            paths == jobs[j].file_paths
            N == Len(paths)
        IN  /\ Len(q) <= N + 1
            /\ \A i \in 1..Len(q) :
                  IF i <= N
                  THEN /\ q[i].type = "progress"
                       /\ q[i].current = i
                       /\ q[i].total = N
                       /\ q[i].file = basename(paths[i])
                  ELSE q[i].type \in {"done", "error"}
            /\ Ended(j) => Len(q) = N + 1

\* C2: when every input file reads as None, the job puts exactly one error
\* event with the fixed message and no done event, writes no file, and
\* returns the failure value.
C2_NoDataFails ==
    \A j \in JobIds :
        (jobs[j].pc # "idle" /\ AllNone(j)) =>
            /\ EventsOfType(queues[j], "done") = {}
            /\ writes[j] = <<>>
            /\ jobs[j].pc \in {"loop", "read", "returned"}
            /\ jobs[j].pc = "returned" =>
                  /\ jobs[j].ret = Failure
                  /\ Cardinality(EventsOfType(queues[j], "error")) = 1
                  /\ Last(queues[j]) =
                        [type |-> "error",
                         message |-> "No readable data found in the selected files."]

C2_Witness ==
    \E j \in JobIds :
        /\ jobs[j].pc = "returned"
        /\ AllNone(j)
        /\ Len(jobs[j].file_paths) = 2
        /\ DOMAIN output # {}

RECURSIVE RowsRead(_, _)
\* The rows of the tables read_file yields for the paths from position i on.
RowsRead(paths, i) ==
    IF i > Len(paths) THEN 0
    ELSE Len(read_file(disk, paths[i]).rows) + RowsRead(paths, i + 1)

NoTwoIdentical(rows) == \A a, b \in 1..Len(rows) : rows[a] = rows[b] => a = b

\* C3: a successful compile reports rows + duplicates = the rows of the
\* files read, with rows equal to that sum exactly when the concatenated
\* table has no two identical rows; the done event and the return value
\* carry the same two numbers.
C3_RowsPlusDuplicates ==
    \A j \in JobIds :
        Succeeded(j) =>
            LET ret == jobs[j].ret
                total == RowsRead(jobs[j].file_paths, 1)
                done == Last(queues[j])
            IN  /\ ret.rows + ret.dupes = total
                /\ ret.rows = Len(jobs[j].combined.rows)
                /\ (ret.rows = total) <=> NoTwoIdentical(concat(jobs[j].frames).rows)
                /\ done.type = "done"
                /\ done.rows = ret.rows
                /\ done.dupes = ret.dupes

C3_Witness ==
    \E j \in JobIds :
        /\ Succeeded(j)
        /\ Len(jobs[j].frames) = 2
        /\ jobs[j].ret.dupes > 0
        /\ jobs[j].ret.rows > 1

\* C6: read_file is called once per file, in input order, each call after
\* the file's progress event; a file that yields nothing raises no error
\* event and does not stop the job, which reads every file and ends with
\* done whenever some file yielded a table.
C6_ReadEachOnceAndFinish ==
    \A j \in JobIds :
        LET q == queues[j]
            paths == jobs[j].file_paths
            progress == Cardinality(EventsOfType(q, "progress"))
        IN  /\ Len(reads[j]) <= Len(paths)
            /\ reads[j] = SubSeq(paths, 1, Len(reads[j]))
            /\ progress \in {Len(reads[j]), Len(reads[j]) + 1}
            /\ EventsOfType(q, "error") # {} => AllNone(j)
            /\ Ended(j) => Len(reads[j]) = Len(paths)
            /\ (Ended(j) /\ ~AllNone(j)) => (q # <<>> /\ Last(q).type = "done")

\* Whether job k has written the output file at path.
Wrote(k, path) ==
    /\ jobs[k].pc = "emit" \/ Succeeded(k)
    /\ out_path_of(jobs[k].account_name) = path

\* C8: the output directory holds one file per label compiled, and that
\* file is the table of the latest successful compile under the label: a
\* later compile overwrites it, a failed compile leaves it as it was.
C8_LatestCompileWins ==
    /\ \A p \in DOMAIN output :
          \E k \in JobIds : jobs[k].account_name # NO_LABEL /\ Wrote(k, p)
    /\ \A j \in JobIds :
          Succeeded(j) =>
              LET path == jobs[j].ret.out_path IN
              /\ path = path_join(OUTPUT_DIR, out_name(jobs[j].account_name))
              /\ path \in DOMAIN output
              /\ (\A k \in JobIds : k > j => ~Wrote(k, path)) =>
                    output[path] = to_csv(jobs[j].combined)

C8_Witness ==
    \E i, j \in JobIds :
        /\ i < j
        /\ Succeeded(i) /\ Succeeded(j)
        /\ jobs[i].account_name = jobs[j].account_name
        /\ jobs[i].combined # jobs[j].combined
        /\ Cardinality(DOMAIN output) = 1

-----------------------------------------------------------------------------
(* The merge over all small tables: one job over two files                 *)

MaxRowsA == 2
MaxRowsB == 1

MergeCells == {T1, T2, TX, NA}
MergeHeaders == { << <<" ","E","X","I","T">>, <<"D","a","t","e">> >>,
                  << <<"s","y","m">>, <<"D","a","t","e">> >> }

\* The files of a header line and up to n two-cell rows.
MergeLines(n) ==
    {<<h>> \o rows : h \in MergeHeaders,
                     rows \in UNION {[1..m -> [1..2 -> MergeCells]] : m \in 0..n}}

ExampleHeader == << <<"s","y","m","b","o","l">>, <<"q","t","y">>, <<"p","r","i","c","e">> >>
ExampleAAPL == << <<"A","A","P","L">>, <<"1","0">>, <<"1","0","0",".","0">> >>
ExampleMSFT == << <<"M","S","F","T">>, <<"5">>, <<"5","0",".","0">> >>
ExampleDisk == Disk(Csv(<<ExampleHeader, ExampleAAPL, ExampleAAPL>>),
                    Xlsx(<<ExampleHeader, ExampleAAPL, ExampleMSFT>>))

InitMerge ==
    /\ \/ \E l1 \in MergeLines(MaxRowsA), l2 \in MergeLines(MaxRowsB) :
             disk = Disk(Csv(l1), Xlsx(l2))
       \/ disk = ExampleDisk
    /\ output = [p \in {} |-> NoFile]
    /\ jobs = [j \in JobIds |->
                 IF j = 1
                 THEN [Idle EXCEPT !.pc = "loop", !.file_paths = <<P1, P2>>,
                                   !.account_name = <<"B">>]
                 ELSE Idle]
    /\ queues = [j \in JobIds |-> <<>>]
    /\ reads = [j \in JobIds |-> <<>>]
    /\ writes = [j \in JobIds |-> <<>>]
    /\ call = NoCall
    /\ NoWeb

NextMerge ==
    \E j \in JobIds :
        \/ PushProgress(j)
        \/ ReadFile(j)
        \/ NoFrames(j)
        \/ Merge(j)
        \/ Sort(j)
        \/ WriteOutput(j)
        \/ PushDone(j)

SpecMerge == InitMerge /\ [][NextMerge]_vars

\* The tables read_file yields for the paths from position i on, in order.
RECURSIVE TablesRead(_, _)
TablesRead(paths, i) ==
    IF i > Len(paths) THEN <<>>
    ELSE (IF read_file(disk, paths[i]).isnone THEN <<>>
          ELSE <<read_file(disk, paths[i])>>) \o TablesRead(paths, i + 1)

\* Whether the values of column name c convert in every frame having it.
NameConverts(frames, c) ==
    \A f \in 1..Len(frames) : \A k \in 1..Len(frames[f].cols) :
        frames[f].cols[k] = c =>
            \A i \in 1..Len(frames[f].rows) :
                isna(frames[f].rows[i][k]) \/ is_time_text(frames[f].rows[i][k])

NoSortApplies(frames) ==
    \A f \in 1..Len(frames) : \A k \in 1..Len(frames[f].cols) :
        is_temporal_name(frames[f].cols[k]) => ~NameConverts(frames, frames[f].cols[k])

\* The number of rows of the first f frames.
RECURSIVE RowsOf(_, _)
RowsOf(frames, f) ==
    IF f = 0 THEN 0 ELSE RowsOf(frames, f - 1) + Len(frames[f].rows)

\* Row n of the frames laid end to end, on the columns cols.
RowAt(frames, cols, n) ==
    LET f == CHOOSE g \in 1..Len(frames) :
                 RowsOf(frames, g - 1) < n /\ n <= RowsOf(frames, g)
        row == frames[f].rows[n - RowsOf(frames, f - 1)]
    IN  [k \in 1..Len(cols) |->
            IF \E c \in 1..Len(frames[f].cols) : frames[f].cols[c] = cols[k]
            THEN row[CHOOSE c \in 1..Len(frames[f].cols) : frames[f].cols[c] = cols[k]]
            ELSE NA]

\* C4: without a temporal sort the compiled table is the tables read, laid
\* end to end in input order on the union of their columns, less every row
\* equal to an earlier one: the first of equal rows stays in its place.  The
\* example files [r1, r1] and [r1, r2] give [r1, r2] with 2 duplicates.
C4_ConcatKeepFirst ==
    \A j \in JobIds :
        jobs[j].pc \in {"write", "emit", "returned"} =>
            LET frames == TablesRead(jobs[j].file_paths, 1)
                out == jobs[j].combined
                total == RowsOf(frames, Len(frames))
                first == {n \in 1..total :
                            \A m \in 1..(n - 1) :
                                RowAt(frames, out.cols, m) # RowAt(frames, out.cols, n)}
                rank(n) == Cardinality({m \in first : m <= n})
            IN  /\ NoSortApplies(frames) =>
                    /\ \A f \in 1..Len(frames) : Range(frames[f].cols) \subseteq Range(out.cols)
                    /\ Len(out.rows) = Cardinality(first)
                    /\ \A n \in first : out.rows[rank(n)] = RowAt(frames, out.cols, n)
                    /\ jobs[j].dupes_removed = total - Cardinality(first)
                /\ disk = ExampleDisk =>
                    /\ out.cols = ExampleHeader
                    /\ out.rows = <<ExampleAAPL, ExampleMSFT>>
                    /\ jobs[j].dupes_removed = 2

C4_Witness ==
    \E j \in JobIds :
        /\ jobs[j].pc = "returned"
        /\ Len(jobs[j].frames) = 2
        /\ jobs[j].frames[1].cols # jobs[j].frames[2].cols
        /\ NoSortApplies(jobs[j].frames)
        /\ jobs[j].dupes_removed > 0
        /\ Len(jobs[j].combined.rows) = 2

\* The nanosecond count of a converted or convertible value.
ValueTime(v) == IF v[1] = "@" THEN time_of(v) ELSE text_int(v)

\* Ascending in column k, rows without a value last.
SortedBy(t, k) ==
    \A a, b \in 1..Len(t.rows) : a < b =>
        /\ isna(t.rows[a][k]) => isna(t.rows[b][k])
        /\ (~isna(t.rows[a][k]) /\ ~isna(t.rows[b][k])) =>
              ValueTime(t.rows[a][k]) <= ValueTime(t.rows[b][k])

\* The temporal columns of t whose present values all convert.
Converting(t) ==
    {k \in 1..Len(t.cols) :
        /\ is_temporal_name(t.cols[k])
        /\ \A i \in 1..Len(t.rows) : isna(t.rows[i][k]) \/ is_time_text(t.rows[i][k])}

\* The temporal columns of t whose every value is there and converts.
FullyConverting(t) ==
    {k \in Converting(t) : \A i \in 1..Len(t.rows) : ~isna(t.rows[i][k])}

SortStep(j) == jobs[j].pc = "sort" /\ jobs'[j].pc = "write"

\* C5 as stated: the output is sorted by every temporal column whose values
\* all parse, and keeps the post-dedup order when no candidate parses.
C5_SortedByEveryParsedColumn ==
    [][\A j \in JobIds :
          SortStep(j) =>
              /\ \A k \in FullyConverting(jobs[j].combined) :
                    SortedBy(jobs'[j].combined, k)
              /\ Converting(jobs[j].combined) = {} =>
                    jobs'[j].combined = jobs[j].combined]_vars

\* The columns the sort can use: the converting ones whose name no other
\* column of the table bears.
SortKeys(t) ==
    {k \in Converting(t) : \A c \in 1..Len(t.cols) : t.cols[c] = t.cols[k] => c = k}

\* C5 amended: the output is sorted ascending by the leftmost temporal
\* column whose name no other column bears and whose present values all
\* parse, rows where it is missing last; it keeps the post-dedup order when
\* there is no such column.
C5_SortedByLeftmostParsedColumn ==
    [][\A j \in JobIds :
          SortStep(j) =>
              LET conv == SortKeys(jobs[j].combined) IN
              /\ conv # {} =>
                    SortedBy(jobs'[j].combined, CHOOSE k \in conv : \A c \in conv : k <= c)
              /\ conv = {} => jobs'[j].combined = jobs[j].combined]_vars

C5_Witness ==
    \E j \in JobIds :
        /\ jobs[j].pc = "write"
        /\ Len(jobs[j].combined.rows) = 3
        /\ Cardinality(Converting(drop_duplicates(concat(jobs[j].frames)))) = 2
        /\ ~SortedBy(drop_duplicates(concat(jobs[j].frames)), 1)
        /\ SortedBy(jobs[j].combined, 1)
        /\ ~SortedBy(jobs[j].combined, 2)

-----------------------------------------------------------------------------
(* detect_header_row and read_file over all small files                    *)

MaxLines == 3
MaxWidth == 2

KW == <<" ","M","A","E"," ">>
ReadCells == {NA, TX, KW}
ReadRows == UNION {[1..w -> ReadCells] : w \in 1..MaxWidth}
Filler == [k \in 1..MaxWidth |-> TX]

\* Files of up to MaxLines lines, some below enough keyword-free lines to
\* put them at the edge of the rows detect_header_row scans.
ReadLines ==
    {[i \in 1..n |-> Filler] \o tail :
        n \in {0, HEADER_SCAN_ROWS - 1, HEADER_SCAN_ROWS},
        tail \in UNION {[1..m -> ReadRows] : m \in 0..MaxLines}}

\* A csv file has no blank line: the reader skips those before counting.
NoBlankLine(lines) == \A i \in 1..Len(lines) : lines[i] # <<NA>>

ReadFiles == {Csv(l) : l \in {x \in ReadLines : NoBlankLine(x)}}
             \cup {Xlsx(l) : l \in ReadLines}

InitRead ==
    /\ NoJobs
    /\ \E path \in Paths, file \in ReadFiles :
          /\ disk = [p \in Paths |-> IF p = path THEN file ELSE NoFile]
          /\ call = [fn |-> "new", filepath |-> path, header_row |-> 0, df |-> None]

CallDetectHeaderRow ==
    /\ call.fn = "new"
    /\ call' = [call EXCEPT !.fn = "detect_header_row",
                            !.header_row = detect_header_row(disk, call.filepath)]
    /\ UNCHANGED <<disk, output, jobs, queues, reads, writes, web>>

CallReadFile ==
    /\ call.fn = "new"
    /\ call' = [call EXCEPT !.fn = "read_file",
                            !.df = read_file(disk, call.filepath)]
    /\ UNCHANGED <<disk, output, jobs, queues, reads, writes, web>>

NextRead == CallDetectHeaderRow \/ CallReadFile

SpecRead == InitRead /\ [][NextRead]_vars

\* Whether the reader chosen by the path's extension accepts the bytes.
Readable(path) ==
    LET ext == lower(splitext_ext(path))
    IN  IF ext = EXT_XLSX THEN disk[path].format = "xlsx"
        ELSE IF ext = EXT_XLS THEN disk[path].format = "xls"
        ELSE disk[path].format = "csv"

\* C9: detect_header_row returns the index of the first of the file's first
\* 30 rows that holds a keyword cell, and 0 when there is none there or the
\* file cannot be read.
C9_FirstKeywordRowOfFile ==
    call.fn = "detect_header_row" =>
        LET lines == disk[call.filepath].lines
            hits == {i \in 1..Min(HEADER_SCAN_ROWS, Len(lines)) : row_has_keyword(lines[i])}
        IN  call.header_row =
                IF Readable(call.filepath) /\ hits # {}
                THEN (CHOOSE i \in hits : \A h \in hits : i <= h) - 1
                ELSE 0

Trimmed(name) ==
    name = <<>> \/ (name[1] \notin Whitespace /\ name[Len(name)] \notin Whitespace)

\* C10: a table returned by read_file has a row, no row and no column that
\* is empty throughout, and trimmed column names; read_file returns None
\* for an unsupported extension, a failed parse, and when cleaning leaves no
\* row.
C10_ReadFileIsClean ==
    call.fn = "read_file" =>
        LET df == call.df
            ext == lower(splitext_ext(call.filepath))
            raw == parse(disk, call.filepath, detect_header_row(disk, call.filepath))
        IN  /\ ~df.isnone =>
                /\ Len(df.rows) >= 1
                /\ Len(df.cols) >= 1
                /\ \A i \in 1..Len(df.rows) :
                      /\ Len(df.rows[i]) = Len(df.cols)
                      /\ \E k \in 1..Len(df.cols) : df.rows[i][k] # NA
                /\ \A k \in 1..Len(df.cols) :
                      /\ \E i \in 1..Len(df.rows) : df.rows[i][k] # NA
                      /\ Trimmed(df.cols[k])
            /\ ext \notin {EXT_CSV, EXT_XLSX, EXT_XLS} => df.isnone
            /\ ~Readable(call.filepath) => df.isnone
            /\ (raw.ok /\ \A i \in 1..Len(raw.rows) :
                            \A k \in 1..Len(raw.rows[i]) : raw.rows[i][k] = NA)
                  => df.isnone

C10_Witness ==
    /\ call.fn = "read_file"
    /\ ~call.df.isnone
    /\ LET raw == parse(disk, call.filepath, detect_header_row(disk, call.filepath))
       IN  /\ Len(call.df.rows) < Len(raw.rows)
           /\ Len(call.df.cols) < Len(raw.header)
           /\ \E k \in 1..Len(raw.header) : ~Trimmed(raw.header[k])

-----------------------------------------------------------------------------
(* The label sanitizer over all short labels                               *)

MaxLabelLen == 3

LabelChars == {"a", "Z", "7", " ", "_", "-", "#", "/", ".", "\t"}
MyAccount1 == <<"M","y"," ","A","c","c","o","u","n","t"," ","#","1">>
LabelTexts == UNION {[1..n -> LabelChars] : n \in 0..MaxLabelLen} \cup {MyAccount1}

InitSanitize ==
    /\ NoJobs
    /\ disk = [p \in Paths |-> NoFile]
    /\ \E label \in LabelTexts :
          call = [fn |-> "new", account_name |-> label, safe_name |-> <<>>,
                  out_path |-> <<>>]

\* Lines 121-124 on the label.
CallSanitize ==
    /\ call.fn = "new"
    /\ call' = [call EXCEPT !.fn = "sanitize",
                            !.safe_name = safe_name(call.account_name),
                            !.out_path = out_path_of(call.account_name)]
    /\ UNCHANGED <<disk, output, jobs, queues, reads, writes, web>>

NextSanitize == CallSanitize

SpecSanitize == InitSanitize /\ [][NextSanitize]_vars

KeptChar(c) ==
    \/ c \in Range(UpperChars) \/ c \in Range(LowerChars) \/ c \in Range(DigitChars)
    \/ c \in {" ", "_", "-"}

CompiledSuffix == <<"_","c","o","m","p","i","l","e","d",".","c","s","v">>

\* C7: the token is the label with every character other than letters,
\* digits, space, underscore and hyphen replaced by an underscore, less
\* surrounding spaces; the file is <token>_compiled.csv, directly inside the
\* output directory; the token holds no path separator and no dot.
C7_SanitizedName ==
    call.fn = "sanitize" =>
        LET label == call.account_name
            token == call.safe_name
            path == call.out_path
        IN  /\ \E lo \in 1..(Len(label) + 1) :
                  /\ Len(token) <= Len(label) - (lo - 1)
                  /\ \A i \in 1..Len(label) :
                        IF lo <= i /\ i < lo + Len(token)
                        THEN token[i - lo + 1] =
                                (IF KeptChar(label[i]) THEN label[i] ELSE "_")
                        ELSE label[i] = " "
            /\ token # <<>> => (token[1] # " " /\ token[Len(token)] # " ")
            /\ \A i \in 1..Len(token) : token[i] \notin {"/", "\\", "."}
            /\ path = OUTPUT_DIR \o <<"/">> \o token \o CompiledSuffix
            /\ SubSeq(path, 1, rfind(path, "/") - 1) = OUTPUT_DIR
            /\ label = MyAccount1 =>
                  basename(path) =
                      <<"M","y"," ","A","c","c","o","u","n","t"," ","_","1",
                        "_","c","o","m","p","i","l","e","d",".","c","s","v">>

C7_Witness ==
    /\ call.fn = "sanitize"
    /\ call.account_name = <<" ", "/", ".">>
    /\ call.safe_name = <<"_", "_">>

-----------------------------------------------------------------------------
(* The web layer: sessions, request handlers, worker threads, streams      *)

MaxSessions == 2
MaxUploads == 2
MaxStreams == 2
MaxPings == 1

\* The ids a request may name: those of the sessions, and one never issued.
RequestSids == 1..(MaxSessions + 1)
RequestJobs == 1..(MaxJobs + 1)
FileIds == 1..MaxUploads

\* sessions[sid] = {"files": [], "account": "Account_1"} (line 144).
DEFAULT_ACCOUNT == <<"A","c","c","o","u","n","t","_","1">>
NewSession == [files |-> <<>>, account |-> DEFAULT_ACCOUNT]

\* No remove or clear handler of the session is between its read and its
\* write of the file list.
NoPending == [op |-> "none", id |-> 0, kept |-> <<>>, before |-> 0]

\* The answer to a request: the handler, the id in its URL, the status code
\* and what the body says.
Answer(op, target, status, body) ==
    [op |-> op, target |-> target, status |-> status, body |-> body]
InvalidSession(op, sid) == Answer(op, sid, 400, "Invalid session")

\* The files a browser may send: name and content.
Upload(name, file) == [filename |-> name, file |-> file]
TwoRows == Csv(<<HdrExitSym, <<T2, TX>>, <<T1, TX>>>>)
OneRow == Xlsx(<<HdrExitSym, <<T1, T1>>>>)
UploadCsv == Upload(<<"a",".","C","S","V">>, TwoRows)
UploadXlsx == Upload(<<"b",".","x","l","s","x">>, OneRow)
UploadTxt == Upload(<<"c",".","t","x","t">>, TwoRows)
UploadNoName == Upload(<<>>, TwoRows)
UploadLists == { <<>>, <<UploadCsv>>, <<UploadXlsx>>, <<UploadTxt, UploadCsv>>,
                 <<UploadNoName>> }

\* The account a set-account request may carry: no "account" key, null, text.
NoKey == <<"<absent>">>
AccountInputs == {NoKey, NO_LABEL, <<"B">>}

\* str(uuid.uuid4()): the n-th identifier issued.
uuid4(n) == int_text(n)

\* Whether upload() takes the file (lines 154-158).
accepted(f) ==
    /\ f.filename # <<>>
    /\ lower(splitext_ext(f.filename)) \in {EXT_CSV, EXT_XLSX, EXT_XLS}

\* The number of files ever saved under UPLOAD_DIR.
Saved == Cardinality(DOMAIN disk)

\* The loop of upload() (lines 153-165) from position i of the uploaded
\* list on: each accepted file is saved under a fresh id and its entry is
\* appended to the session's list.
RECURSIVE upload_loop(_, _, _, _)
upload_loop(fs, files, uploaded, i) ==
    IF i > Len(uploaded) THEN [disk |-> fs, files |-> files]
    ELSE IF ~accepted(uploaded[i]) THEN upload_loop(fs, files, uploaded, i + 1)
    ELSE LET f == uploaded[i]
             ext == lower(splitext_ext(f.filename))
             file_id == uuid4(Cardinality(DOMAIN fs) + 1)
             dest == path_join(UPLOAD_DIR, file_id \o ext)
             entry == [id |-> file_id, name |-> f.filename, path |-> dest,
                       size |-> Len(f.file.lines)]
         IN  upload_loop([p \in DOMAIN fs \cup {dest} |->
                             IF p = dest THEN f.file ELSE fs[p]],
                         Append(files, entry), uploaded, i + 1)

Known(sid) == sid \in DOMAIN sessions

\* POST /session/new
new_session ==
    /\ Len(sessions) < MaxSessions
    /\ sessions' = Append(sessions, NewSession)
    /\ pending' = Append(pending, NoPending)
    /\ resp' = Answer("new_session", Len(sessions) + 1, 200, "session_id")
    /\ UNCHANGED <<disk, output, jobs, queues, reads, writes, call,
                   threads, taken, streams>>

\* Rejected, but registering the unknown id as a new session on the way.
RejectedRegisters(op, sid) ==
    /\ ~Known(sid)
    /\ Len(sessions) < MaxSessions
    /\ sessions' = Append(sessions, NewSession)
    /\ pending' = Append(pending, NoPending)
    /\ resp' = InvalidSession(op, sid)
    /\ UNCHANGED <<disk, output, jobs, queues, reads, writes, call,
                   threads, taken, streams>>

\* A request on a session id that is not in the store (the first two lines
\* of every session handler).
Rejected(op, sid) ==
    /\ ~Known(sid)
    /\ resp' = InvalidSession(op, sid)
    /\ UNCHANGED <<disk, output, jobs, queues, reads, writes, call,
                   sessions, threads, taken, streams, pending>>

\* POST /session/<sid>/upload
upload(sid, uploaded) ==
    \/ Rejected("upload", sid)
    \/ /\ Known(sid)
       /\ Saved + Cardinality({i \in 1..Len(uploaded) : accepted(uploaded[i])})
             <= MaxUploads
       /\ LET done == upload_loop(disk, sessions[sid].files, uploaded, 1)
          IN  /\ disk' = done.disk
              /\ sessions' = [sessions EXCEPT ![sid].files = done.files]
              /\ resp' = Answer("upload", sid, 200, "added")
       /\ UNCHANGED <<output, jobs, queues, reads, writes, call,
                      threads, taken, streams, pending>>

\* GET /session/<sid>/files
list_files(sid) ==
    \/ Rejected("list_files", sid)
    \/ /\ Known(sid)
       /\ resp' = Answer("list_files", sid, 200, "files")
       /\ UNCHANGED <<disk, output, jobs, queues, reads, writes, call,
                      sessions, threads, taken, streams, pending>>

\* POST /session/<sid>/remove, up to the list comprehension of lines
\* 188-190: the new list is built from the list the session holds now.
remove_file_read(sid, file_id) ==
    \/ Rejected("remove_file", sid)
    \/ /\ Known(sid)
       /\ pending[sid].op = "none"
       /\ LET files == sessions[sid].files
              keep == {i \in 1..Len(files) : files[i].id # file_id}
          IN  pending' = [pending EXCEPT ![sid] =
                            [op |-> "remove", id |-> file_id,
                             kept |-> Pick(files, keep, 1),
                             before |-> Len(files)]]
       /\ UNCHANGED <<disk, output, jobs, queues, reads, writes, call,
                      sessions, threads, taken, streams, resp>>

\* remove_file, the assignment of line 188 and the answer.
remove_file_write(sid) ==
    /\ Known(sid)
    /\ pending[sid].op = "remove"
    /\ sessions' = [sessions EXCEPT ![sid].files = pending[sid].kept]
    /\ pending' = [pending EXCEPT ![sid] = NoPending]
    /\ resp' = Answer("remove_file", sid, 200, "total")
    /\ UNCHANGED <<disk, output, jobs, queues, reads, writes, call,
                   threads, taken, streams>>

\* POST /session/<sid>/clear, the loop of lines 200-204: the files of the
\* list are deleted from the upload directory.
clear_files_remove(sid) ==
    \/ Rejected("clear_files", sid)
    \/ /\ Known(sid)
       /\ pending[sid].op = "none"
       /\ LET files == sessions[sid].files
              gone == {files[i].path : i \in 1..Len(files)}
          IN  disk' = [p \in DOMAIN disk |-> IF p \in gone THEN NoFile ELSE disk[p]]
       /\ pending' = [pending EXCEPT ![sid] = [NoPending EXCEPT !.op = "clear"]]
       /\ UNCHANGED <<output, jobs, queues, reads, writes, call,
                      sessions, threads, taken, streams, resp>>

\* clear_files, line 205 and the answer.
clear_files_write(sid) ==
    /\ Known(sid)
    /\ pending[sid].op = "clear"
    /\ sessions' = [sessions EXCEPT ![sid].files = <<>>]
    /\ pending' = [pending EXCEPT ![sid] = NoPending]
    /\ resp' = Answer("clear_files", sid, 200, "total")
    /\ UNCHANGED <<disk, output, jobs, queues, reads, writes, call,
                   threads, taken, streams>>

\* POST /session/<sid>/account: data.get("account", "Account_1") is stored
\* as it comes, null included.
set_account(sid, account) ==
    \/ Rejected("set_account", sid)
    \/ /\ Known(sid)
       /\ sessions' = [sessions EXCEPT ![sid].account =
                          IF account = NoKey THEN DEFAULT_ACCOUNT ELSE account]
       /\ resp' = Answer("set_account", sid, 200, "ok")
       /\ UNCHANGED <<disk, output, jobs, queues, reads, writes, call,
                      threads, taken, streams, pending>>

\* A worker thread: the session its closure refers to, how far run() has
\* come, and the paths it has collected.
\* seen_paths and seen_account record what the session held when
\* compile_route ran; the code copies neither, they are kept for comparison.
Thread(sid) ==
    [sess |-> sid, pc |-> "started", file_paths |-> <<>>,
     seen_paths |-> [i \in 1..Len(sessions[sid].files) |-> sessions[sid].files[i].path],
     seen_account |-> sessions[sid].account]

\* POST /session/<sid>/compile: the queue of a new job is registered and the
\* worker thread is started; nothing of the session is copied.
compile_route(sid) ==
    \/ Rejected("compile", sid)
    \/ /\ Known(sid)
       /\ sessions[sid].files = <<>>
       /\ resp' = Answer("compile", sid, 400, "No files staged")
       /\ UNCHANGED <<disk, output, jobs, queues, reads, writes, call,
                      sessions, threads, taken, streams, pending>>
    \/ /\ Known(sid)
       /\ sessions[sid].files # <<>>
       /\ Len(queues) < MaxJobs
       /\ queues' = Append(queues, <<>>)
       /\ taken' = Append(taken, 0)
       /\ threads' = Append(threads, Thread(sid))
       /\ resp' = Answer("compile", sid, 200, "job_id")
       /\ UNCHANGED <<disk, output, jobs, reads, writes, call,
                      sessions, streams, pending>>

\* run(), line 231: the paths of the files the session holds now.
run_paths(j) ==
    /\ j \in DOMAIN threads
    /\ threads[j].pc = "started"
    /\ LET files == sessions[threads[j].sess].files
       IN  threads' = [threads EXCEPT ![j].pc = "paths",
                                      ![j].file_paths =
                                          [i \in 1..Len(files) |-> files[i].path]]
    /\ UNCHANGED <<disk, output, jobs, queues, reads, writes, call,
                   sessions, taken, streams, pending, resp>>

\* run(), lines 230-234: the label the session holds now, and the call.
run_call(j) ==
    /\ j \in DOMAIN threads
    /\ threads[j].pc = "paths"
    /\ Enter(j, threads[j].file_paths, sessions[threads[j].sess].account)
    /\ threads' = [threads EXCEPT ![j].pc = "called"]
    /\ UNCHANGED <<sessions, taken, streams, pending, resp>>

\* GET /job/<job_id>/progress: a stream over the job's queue, 404 for an
\* id the store does not hold.
job_progress(job_id) ==
    \/ /\ job_id \notin DOMAIN queues
       /\ resp' = Answer("job_progress", job_id, 404, "Unknown job")
       /\ UNCHANGED <<disk, output, jobs, queues, reads, writes, call,
                      sessions, threads, taken, streams, pending>>
    \/ /\ job_id \in DOMAIN queues
       /\ Len(streams) < MaxStreams
       /\ streams' = Append(streams, [job |-> job_id, open |-> TRUE, out |-> <<>>])
       /\ resp' = Answer("job_progress", job_id, 200, "stream")
       /\ UNCHANGED <<disk, output, jobs, queues, reads, writes, call,
                      sessions, threads, taken, pending>>

Ping == [type |-> "ping"]

\* stream(), lines 249-252: the oldest event is taken off the queue and
\* yielded; after a terminal event the generator ends.
stream_get(s) ==
    /\ s \in DOMAIN streams
    /\ streams[s].open
    /\ LET j == streams[s].job
       IN  /\ taken[j] < Len(queues[j])
           /\ LET msg == queues[j][taken[j] + 1]
              IN  streams' = [streams EXCEPT
                                ![s].out = Append(@, msg),
                                ![s].open = msg.type \notin {"done", "error"}]
           /\ taken' = [taken EXCEPT ![j] = @ + 1]
    /\ UNCHANGED <<disk, output, jobs, queues, reads, writes, call,
                   sessions, threads, pending, resp>>

\* stream(), lines 253-254: nothing arrived within the wait.
stream_ping(s) ==
    /\ s \in DOMAIN streams
    /\ streams[s].open
    /\ taken[streams[s].job] = Len(queues[streams[s].job])
    /\ Cardinality({i \in 1..Len(streams[s].out) : streams[s].out[i] = Ping}) < MaxPings
    /\ streams' = [streams EXCEPT ![s].out = Append(@, Ping)]
    /\ UNCHANGED <<disk, output, jobs, queues, reads, writes, call,
                   sessions, threads, taken, pending, resp>>

\* GET /download/<filename>
download(filename) ==
    /\ resp' = IF path_join(OUTPUT_DIR, filename) \in DOMAIN output
               THEN Answer("download", 0, 200, "file")
               ELSE Answer("download", 0, 404, "File not found")
    /\ UNCHANGED <<disk, output, jobs, queues, reads, writes, call,
                   sessions, threads, taken, streams, pending>>

DownloadNames == {out_name(DEFAULT_ACCOUNT), out_name(<<"B">>)}

\* The server after start-up: empty stores, empty directories.
InitServer ==
    /\ disk = [p \in {} |-> NoFile]
    /\ output = [p \in {} |-> NoFile]
    /\ jobs = [j \in JobIds |-> Idle]
    /\ queues = <<>>
    /\ reads = [j \in JobIds |-> <<>>]
    /\ writes = [j \in JobIds |-> <<>>]
    /\ call = NoCall
    /\ NoWeb

\* The inputs of the session requests.
SessionUploads == { <<UploadCsv>>, <<UploadTxt, UploadCsv>>, <<UploadNoName>> }
SessionAccounts == {NoKey, NO_LABEL}

\* Every session request a browser may send, on ids known and unknown.
NextSessions ==
    \/ new_session
    \/ \E sid \in RequestSids, uploaded \in SessionUploads : upload(sid, uploaded)
    \/ \E sid \in RequestSids : list_files(sid)
    \/ \E sid \in RequestSids, file_id \in FileIds : remove_file_read(sid, uuid4(file_id))
    \/ \E sid \in RequestSids : remove_file_write(sid)
    \/ \E sid \in RequestSids : clear_files_remove(sid)
    \/ \E sid \in RequestSids : clear_files_write(sid)
    \/ \E sid \in RequestSids, account \in SessionAccounts : set_account(sid, account)
    \/ \E sid \in RequestSids :
          /\ Known(sid) => (queues = <<>> \/ sessions[sid].files = <<>>)
          /\ compile_route(sid)

\* The session handlers alone, in every interleaving, with one compile
\* request accepted and any number rejected; the worker started is not
\* scheduled.
SpecSessions == InitServer /\ [][NextSessions]_vars

-----------------------------------------------------------------------------
(* Compile jobs running beside the requests of their session               *)

\* The steps of the worker thread of job j.
Worker(j) ==
    \/ run_paths(j)
    \/ run_call(j)
    \/ PushProgress(j)
    \/ ReadFile(j)
    \/ NoFrames(j)
    \/ Merge(j)
    \/ Sort(j)
    \/ WriteOutput(j)
    \/ PushDone(j)

UploadJunk == Upload(<<"j",".","x","l","s">>, Junk)
CompileUploads == { <<UploadCsv>>, <<UploadXlsx>> }
RaceUploads == { <<UploadCsv>>, <<UploadXlsx>>, <<UploadJunk>> }
CompileAccounts == {NO_LABEL, <<"B">>}

\* One session, one compile request, and the session's other requests in
\* every interleaving with the worker.
NextSnapshot ==
    \/ sessions = <<>> /\ new_session
    \/ \E uploaded \in CompileUploads : upload(1, uploaded)
    \/ \E file_id \in FileIds : remove_file_read(1, uuid4(file_id))
    \/ remove_file_write(1)
    \/ clear_files_remove(1)
    \/ clear_files_write(1)
    \/ \E account \in CompileAccounts : set_account(1, account)
    \/ queues = <<>> /\ compile_route(1)
    \/ \E j \in JobIds : Worker(j)

SpecSnapshot == InitServer /\ [][NextSnapshot]_vars

\* One session compiled twice under one label, the workers in every
\* interleaving.
NextRace ==
    \/ sessions = <<>> /\ new_session
    \/ \E uploaded \in RaceUploads : upload(1, uploaded)
    \/ compile_route(1)
    \/ \E j \in JobIds : Worker(j)

SpecRace == InitServer /\ [][NextRace]_vars

-----------------------------------------------------------------------------
(* Properties of the compile jobs of a session                             *)

\* C11: a job works on the session as it was when compile_route ran: the
\* paths it is called with, the files it reads and the label that names its
\* output are those the session held then, whatever request the session
\* handles afterwards.
C11_JobUsesSnapshot ==
    \A j \in DOMAIN threads :
        jobs[j].pc # "idle" =>
            /\ jobs[j].file_paths = threads[j].seen_paths
            /\ jobs[j].account_name = threads[j].seen_account
            /\ reads[j] = SubSeq(threads[j].seen_paths, 1, Len(reads[j]))
            /\ \A i \in 1..Len(writes[j]) :
                  writes[j][i] = out_path_of(threads[j].seen_account)

Terminal(j) == {i \in 1..Len(queues[j]) : queues[j][i].type \in {"done", "error"}}

\* C12: no worker's run of compile_files ends, by returning or by an
\* exception, without a terminal event on the job's queue: every started
\* job emits done or error.
C12_StartedJobEmitsTerminal ==
    \A j \in DOMAIN threads :
        (threads[j].pc = "called" /\ Ended(j)) => Terminal(j) # {}

-----------------------------------------------------------------------------
(* Progress streams over the queues of running jobs                        *)

\* The steps of the generator of stream s.
Consumer(s) == stream_get(s) \/ stream_ping(s)

StreamUploads == { <<UploadCsv>>, <<UploadJunk>> }

\* One session and one compile request, the progress requests of a browser,
\* the worker and the stream generators in every interleaving.
NextStream ==
    \/ sessions = <<>> /\ new_session
    \/ \E uploaded \in StreamUploads : upload(1, uploaded)
    \/ queues = <<>> /\ compile_route(1)
    \/ \E job_id \in RequestJobs : job_progress(job_id)
    \/ \E filename \in DownloadNames : download(filename)
    \/ \E j \in JobIds : Worker(j)
    \/ \E s \in 1..MaxStreams : Consumer(s)

SpecStream == InitServer /\ [][NextStream]_vars

\* The events stream s has yielded, keep-alive pings left out.
Delivered(s) ==
    LET out == streams[s].out
    IN  Pick(out, {i \in 1..Len(out) : out[i] # Ping}, 1)

\* C13: once a stream has delivered a job's terminal event, the job is gone
\* from the queue store, so that a later progress request for its id is
\* answered 'Unknown job'.
C13_ConsumedJobIsGone ==
    \A s \in DOMAIN streams :
        ~streams[s].open => streams[s].job \notin DOMAIN queues

\* C16: a stream delivers the events of its job once each and in emission
\* order, from progress event 1 on, and is closed exactly when it has
\* delivered the terminal event.
C16_StreamDeliversAllInOrder ==
    \A s \in DOMAIN streams :
        LET d == Delivered(s)
            q == queues[streams[s].job]
        IN  /\ Len(d) <= Len(q)
            /\ d = SubSeq(q, 1, Len(d))
            /\ streams[s].open <=> (d = <<>> \/ Last(d).type \notin {"done", "error"})

-----------------------------------------------------------------------------
(* A compiled file compiled again                                          *)

\* The path under which the compiled file comes back as an upload.
P4 == path_join(UPLOAD_DIR, <<"r",".","c","s","v">>)

RecompileFiles == {Csv(l) : l \in {x \in ReadLines : NoBlankLine(x)}}

\* One csv file is staged; job 1 is about to compile it.
InitRecompile ==
    /\ \E file \in RecompileFiles :
          disk = (P1 :> file) @@ (P4 :> NoFile)
    /\ output = [p \in {} |-> NoFile]
    /\ jobs = [j \in JobIds |->
                 IF j = 1
                 THEN [Idle EXCEPT !.pc = "loop", !.file_paths = <<P1>>,
                                   !.account_name = <<"B">>]
                 ELSE Idle]
    /\ queues = [j \in JobIds |-> <<>>]
    /\ reads = [j \in JobIds |-> <<>>]
    /\ writes = [j \in JobIds |-> <<>>]
    /\ call = NoCall
    /\ NoWeb

\* The file job 1 wrote is downloaded and uploaded again (f.save).
Reupload ==
    /\ jobs[1].pc = "returned" /\ ~jobs[1].ret.none
    /\ disk[P4] = NoFile
    /\ disk' = [disk EXCEPT ![P4] = output[jobs[1].ret.out_path]]
    /\ UNCHANGED <<output, jobs, queues, reads, writes, call, web>>

\* Job 2 compiles the uploaded copy alone, under the same label.
Recompile ==
    /\ disk[P4] # NoFile
    /\ Enter(2, <<P4>>, jobs[1].account_name)
    /\ UNCHANGED web

NextRecompile ==
    \/ Reupload
    \/ Recompile
    \/ \E j \in JobIds :
          \/ PushProgress(j)
          \/ ReadFile(j)
          \/ NoFrames(j)
          \/ Merge(j)
          \/ Sort(j)
          \/ WriteOutput(j)
          \/ PushDone(j)

SpecRecompile == InitRecompile /\ [][NextRecompile]_vars

\* The table of job j after concatenation and duplicate removal.
Deduplicated(j) == drop_duplicates(concat(jobs[j].frames))

\* Duplicate removal changes nothing in a table it has been applied to.
DedupIdempotent ==
    \A j \in JobIds :
        (jobs[j].pc \in {"sort", "write", "emit", "returned"} /\ jobs[j].frames # <<>>) =>
            /\ jobs[j].pc = "sort" => jobs[j].combined = Deduplicated(j)
            /\ drop_duplicates(Deduplicated(j)) = Deduplicated(j)

\* Job 2, compiling the unsorted output of job 1, reports no duplicate and
\* the rows of job 1.
SameRowsAgain ==
    /\ jobs[2].pc = "returned"
    /\ jobs[2].ret.dupes = 0
    /\ jobs[2].ret.rows = jobs[1].ret.rows
    /\ jobs[2].combined.rows = jobs[1].combined.rows

-----------------------------------------------------------------------------
(* The temporal sort over all small tables of one file                     *)

\* Header lines: two temporal names, one temporal name, and two names that
\* are equal once stripped.
SortHeaders == MergeHeaders \cup { << <<"D","a","t","e">>, <<" ","D","a","t","e">> >> }

SortFiles ==
    {Csv(<<h>> \o rows) :
        h \in SortHeaders,
        rows \in UNION {[1..m -> [1..2 -> MergeCells]] : m \in 0..(MaxRowsA + MaxRowsB)}}

\* One csv file is staged; job 1 is about to compile it.
InitSort ==
    /\ \E file \in SortFiles : disk = (P1 :> file)
    /\ output = [p \in {} |-> NoFile]
    /\ jobs = [j \in JobIds |->
                 IF j = 1
                 THEN [Idle EXCEPT !.pc = "loop", !.file_paths = <<P1>>,
                                   !.account_name = <<"B">>]
                 ELSE Idle]
    /\ queues = [j \in JobIds |-> <<>>]
    /\ reads = [j \in JobIds |-> <<>>]
    /\ writes = [j \in JobIds |-> <<>>]
    /\ call = NoCall
    /\ NoWeb

SpecSort == InitSort /\ [][NextMerge]_vars

\* Whether a cell holds a converted timestamp.
Converted(v) == v # <<>> /\ v[1] = "@"

\* Column c of table t, top to bottom.
Column(t, c) == [i \in 1..Len(t.rows) |-> t.rows[i][c]]

\* C15: the sort key is the leftmost column with a temporal name whose
\* values all parse; the table is sorted by it, and only that column is
\* converted: a candidate that fails to parse and every column right of the
\* key keep their values.  Without a parsing candidate nothing changes.
C15_SortKeyIsLeftmostParsed ==
    [][\A j \in JobIds :
          SortStep(j) =>
              LET before == jobs[j].combined
                  after == jobs'[j].combined
                  conv == Converting(before)
              IN  IF conv = {} THEN after = before
                  ELSE LET key == CHOOSE k \in conv : \A c \in conv : k <= c
                       IN  /\ SortedBy(after, key)
                           /\ \A i \in 1..Len(after.rows) :
                                 \A c \in 1..Len(after.cols) :
                                     Converted(after.rows[i][c]) <=>
                                         (c = key /\ ~isna(after.rows[i][c]))
                           /\ \E p \in RowOrders(Len(before.rows)) :
                                 after = reorder(to_datetime(before, key), p)]_vars

-----------------------------------------------------------------------------
(* The done event and the file it names                                    *)

\* C17: when a job's done event appears on its queue, the file it names is
\* in the output directory and holds that job's final table, with as many
\* data rows as the event says - also while another job runs under the same
\* label.
C17_DoneEventNamesOwnFile ==
    [][\A j \in JobIds :
          (jobs[j].pc = "emit" /\ jobs'[j].pc = "returned") =>
              LET done == Last(queues'[j])
                  path == path_join(OUTPUT_DIR, done.filename)
              IN  /\ done.type = "done"
                  /\ path \in DOMAIN output'
                  /\ output'[path] = to_csv(jobs[j].combined)
                  /\ Len(output'[path].lines) - 1 = done.rows]_vars

-----------------------------------------------------------------------------
(* Properties of the session store                                         *)

\* C18: under every interleaving of the handlers of a session, an entry
\* leaves the session's file list only in a remove that names its id or in
\* a clear, and an entry that was removed does not come back: the only
\* entries that appear are those of files saved in that very step.
C18_NoUpdateLost ==
    [][\A sid \in DOMAIN sessions :
          LET old == sessions[sid].files
              new == sessions'[sid].files
          IN  /\ \A i \in 1..Len(old) :
                    (\A k \in 1..Len(new) : new[k] # old[i]) =>
                        \/ /\ pending[sid].op = "remove"
                           /\ pending'[sid].op = "none"
                           /\ pending[sid].id = old[i].id
                        \/ /\ pending[sid].op = "clear"
                           /\ pending'[sid].op = "none"
              /\ \A k \in 1..Len(new) :
                    (\A i \in 1..Len(old) : old[i] # new[k]) =>
                        new[k].path \notin DOMAIN disk]_vars

\* The handlers that take a session id.
SessionOps == {"upload", "list_files", "remove_file", "clear_files",
               "set_account", "compile"}

\* Everything but the answer: sessions, handlers in flight, jobs, queues,
\* streams and both directories.
AllButResp ==
    <<disk, output, jobs, queues, reads, writes, call,
      sessions, threads, taken, streams, pending>>

\* C19: a request on an unknown session id is answered 'Invalid session',
\* a compile request on a session without files 'No files staged', and both
\* leave everything as it was: no session, job, queue, worker or file is
\* touched.  A step of an accepted request changes no session but the one
\* it names.
C19_RejectedChangesNothing ==
    [][/\ resp' # resp =>
            LET sid == resp'.target IN
            /\ (resp'.op \in SessionOps /\ ~Known(sid)) =>
                  (resp'.status = 400 /\ resp'.body = "Invalid session")
            /\ (resp'.op = "compile" /\ Known(sid) /\ sessions[sid].files = <<>>) =>
                  (resp'.status = 400 /\ resp'.body = "No files staged")
            /\ resp'.status = 400 => UNCHANGED AllButResp
            /\ resp'.op \in SessionOps =>
                  /\ Len(sessions') = Len(sessions)
                  /\ \A other \in DOMAIN sessions :
                        other # sid => /\ sessions'[other] = sessions[other]
                                       /\ pending'[other] = pending[other]
       /\ Cardinality({sid \in DOMAIN sessions :
                          sid \in DOMAIN sessions' /\ sessions'[sid] # sessions[sid]}) <= 1
      ]_vars

C19_Witness ==
    /\ Len(sessions) = MaxSessions
    /\ sessions[1].files # <<>>
    /\ sessions[2].files = <<>>
    /\ Len(queues) = 1
    /\ resp = Answer("compile", 2, 400, "No files staged")

====
